---- MODULE Spec2Model ----
(***************************************************************************)
(* Model of the refugee-backend repository:                                *)
(*   src/load_unhcr_data.py  the UNHCR CSV loader script                   *)
(*   src/main.py             the FastAPI module over the same store        *)
(* Text is modelled as sequences of one-character strings, so parsing and  *)
(* formatting are computed, character by character, as the code does.      *)
(***************************************************************************)
EXTENDS Integers, Sequences, FiniteSets, TLC

VARIABLES
    \* ---- environment of a process
    key_set,        \* SUPABASE_SERVICE_KEY is set in the environment
    pad_year,       \* the platform's strftime("%Y") zero-pads years below 1000
    ts_exists,      \* os.path.exists("csv.csv")
    ts_file,        \* lines of csv.csv (ids of Line)
    demo_exists,    \* os.path.exists("population_timeseries.csv")
    demo_file,      \* lines of population_timeseries.csv (ids of Line)
    \* ---- the external store
    population_timeseries,     \* table: sequence of rows [data_date, individuals]
    population_demographics,   \* table: sequence of demographics rows
    camp_locations,            \* table: number of OCHA camp rows upserted
    alerts,                    \* table: alert id -> [acknowledged, acknowledged_by]
    \* ---- the loader script (load_unhcr_data.py)
    pc,             \* position of the script
    run,            \* how many times the script has been started
    rows,           \* load_*: local rows (after the parse loop: the list to submit)
    parsed,         \* load_population_timeseries: rows before deduplication
    skipped,        \* load_population_timeseries: local skipped
    i,              \* load_population_timeseries: start index of the next batch
    inserted,       \* load_population_timeseries: local inserted
    calls,          \* upsert calls of the current loader: [batch, ok]
    exc,            \* the uncaught exception that ended the process, or "none"
    out,            \* what the script printed (tags)
    ts_at_call,     \* history: population_timeseries when the loader was called
    ts_done,        \* history: population_timeseries at each completed timeseries load
    returned,       \* what each loader of this run returned: <<>> before, then <<n>>
    \* ---- parse_date on its own
    date_src,       \* the calendar day and the way it is written
    date_str,       \* the argument of parse_date
    date_res,       \* its outcome
    \* ---- the API module (main.py)
    api_state,      \* "import" | "running"
    api_key,        \* the key create_client got
    response        \* the last HTTP response

envVars    == <<key_set, pad_year, ts_exists, ts_file, demo_exists, demo_file>>
storeVars  == <<population_timeseries, population_demographics, camp_locations, alerts>>
loaderVars == <<pc, run, rows, parsed, skipped, i, inserted, calls, exc, out,
                ts_at_call, ts_done, returned>>
dateVars   == <<date_src, date_str, date_res>>
apiVars    == <<api_state, api_key, response>>
vars       == <<envVars, storeVars, loaderVars, dateVars, apiVars>>

-----------------------------------------------------------------------------
(* Text: str as a sequence of one-character strings.                       *)

Digits == <<"0", "1", "2", "3", "4", "5", "6", "7", "8", "9">>

IsDigit(c) == \E k \in 1..10 : Digits[k] = c

DigitVal(c) == (CHOOSE k \in 1..10 : Digits[k] = c) - 1

\* the bytes clean_csv_bytes removes: NUL, and bytes that do not decode as UTF-8
NUL == "NUL"
BADBYTE == "BADBYTE"

\* str.strip() with no argument strips whitespace
Whitespace == {" ", "\t", "\r", "\n"}

RECURSIVE lstrip(_)
lstrip(s) ==
    IF s # <<>> /\ Head(s) \in Whitespace THEN lstrip(Tail(s)) ELSE s

RECURSIVE rstrip(_)
rstrip(s) ==
    IF s # <<>> /\ s[Len(s)] \in Whitespace
    THEN rstrip(SubSeq(s, 1, Len(s) - 1)) ELSE s

strip(s) == rstrip(lstrip(s))

startswith(s, p) == Len(s) >= Len(p) /\ SubSeq(s, 1, Len(p)) = p

\* str.split(sep) for a one-character sep: always at least one part.  The
\* parts left and right of any one separator are split on their own; one
\* near the middle is taken, which keeps the recursion shallow on a whole file
MiddleSep(s, sep) ==
    LET h == (Len(s) \div 2) + 1
    IN  IF \E k \in h..Len(s) : s[k] = sep
        THEN CHOOSE k \in h..Len(s) : s[k] = sep /\ \A j \in h..(k - 1) : s[j] # sep
        ELSE CHOOSE k \in 1..(h - 1) : s[k] = sep /\ \A j \in (k + 1)..(h - 1) : s[j] # sep

RECURSIVE split(_, _)
RECURSIVE SplitAt(_, _, _)
SplitAt(s, sep, mid) ==
    split(SubSeq(s, 1, mid - 1), sep) \o split(SubSeq(s, mid + 1, Len(s)), sep)

split(s, sep) ==
    IF \A k \in 1..Len(s) : s[k] # sep THEN <<s>> ELSE SplitAt(s, sep, MiddleSep(s, sep))

\* the value of a string of decimal digits
RECURSIVE DigitsVal(_)
DigitsVal(s) ==
    IF s = <<>> THEN 0
    ELSE 10 * DigitsVal(SubSeq(s, 1, Len(s) - 1)) + DigitVal(s[Len(s)])

\* n written with at least w digits, zero-padded ("%02d", "%04d")
RECURSIVE ZeroPad(_, _)
ZeroPad(n, w) ==
    IF w <= 1 /\ n < 10 THEN <<Digits[n + 1]>>
    ELSE ZeroPad(n \div 10, w - 1) \o <<Digits[(n % 10) + 1]>>

Ok(v)  == [ok |-> TRUE, v |-> v]
ValueError == [ok |-> FALSE, v |-> <<>>]

\* int(s) of Python for a stripped argument: an optional sign, then digits
\* that single underscores may separate
IsIntBody(s) ==
    /\ s # <<>>
    /\ \A k \in 1..Len(s) : IsDigit(s[k]) \/ s[k] = "_"
    /\ IsDigit(s[1]) /\ IsDigit(s[Len(s)])
    /\ \A k \in 1..(Len(s) - 1) : ~(s[k] = "_" /\ s[k + 1] = "_")

int(s0) ==
    LET s    == strip(s0)
        sign == IF s # <<>> /\ s[1] \in {"+", "-"} THEN s[1] ELSE ""
        body == IF sign = "" THEN s ELSE Tail(s)
        digs == SelectSeq(body, IsDigit)
    IN  IF IsIntBody(body)
        THEN Ok(IF sign = "-" THEN 0 - DigitsVal(digs) ELSE DigitsVal(digs))
        ELSE ValueError

-----------------------------------------------------------------------------
(* parse_date: datetime.strptime under three formats, then strftime.       *)

\* the directives' regular expressions of _strptime.TimeRE
Match_d(f) ==      \* 3[0-1]|[1-2]\d|0[1-9]|[1-9]| [1-9]
    \/ Len(f) = 2 /\ f[1] = "3" /\ f[2] \in {"0", "1"}
    \/ Len(f) = 2 /\ f[1] \in {"1", "2"} /\ IsDigit(f[2])
    \/ Len(f) = 2 /\ f[1] \in {"0", " "} /\ IsDigit(f[2]) /\ f[2] # "0"
    \/ Len(f) = 1 /\ IsDigit(f[1]) /\ f[1] # "0"

Match_m(f) ==      \* 1[0-2]|0[1-9]|[1-9]
    \/ Len(f) = 2 /\ f[1] = "1" /\ f[2] \in {"0", "1", "2"}
    \/ Len(f) = 2 /\ f[1] = "0" /\ IsDigit(f[2]) /\ f[2] # "0"
    \/ Len(f) = 1 /\ IsDigit(f[1]) /\ f[1] # "0"

Match_y(f) == Len(f) = 2 /\ \A k \in 1..2 : IsDigit(f[k])      \* \d\d

Match_Y(f) == Len(f) = 4 /\ \A k \in 1..4 : IsDigit(f[k])      \* \d\d\d\d

\* %y: values 69-99 are 1969-1999, values 0-68 are 2000-2068
PivotYear == 68
CenturyLow == 1900
CenturyHigh == 2000

\* (mutant) every two-digit year is of the 1900s
Year_y1900(f) == CenturyLow + DigitsVal(f)

Year_y(f) ==
    LET n == DigitsVal(f)
    IN  IF n <= PivotYear THEN CenturyHigh + n ELSE CenturyLow + n

IsLeap(y) == (y % 4 = 0) /\ ((y % 100 # 0) \/ (y % 400 = 0))

DaysInMonth(y, m) ==
    IF m = 2 THEN (IF IsLeap(y) THEN 29 ELSE 28)
    ELSE IF m \in {4, 6, 9, 11} THEN 30 ELSE 31

\* the datetime constructor's range check
ValidDate(y, m, d) ==
    /\ y >= 1 /\ y <= 9999
    /\ m >= 1 /\ m <= 12
    /\ d >= 1 /\ d <= DaysInMonth(y, m)

NumOf(f) == DigitsVal(SelectSeq(f, IsDigit))

\* (mutant) the first format read as month-day-year
strptimeMonthFirst(s, fmt) ==
    LET p == split(s, "-")
    IN  IF Len(p) = 3 /\ Match_m(p[1]) /\ Match_d(p[2]) /\ Match_y(p[3])
           /\ ValidDate(Year_y(p[3]), NumOf(p[1]), NumOf(p[2]))
        THEN Ok(<<Year_y(p[3]), NumOf(p[1]), NumOf(p[2])>>) ELSE ValueError

\* datetime.strptime(s, fmt) for the three formats of parse_date: the whole
\* string must match D-M-Y, then the date must exist
strptime(s, fmt) ==
    LET p == split(s, "-")
    IN  IF Len(p) # 3 THEN ValueError
        ELSE IF fmt = "%d-%m-%y" THEN
            IF Match_d(p[1]) /\ Match_m(p[2]) /\ Match_y(p[3])
               /\ ValidDate(Year_y(p[3]), NumOf(p[2]), NumOf(p[1]))
            THEN Ok(<<Year_y(p[3]), NumOf(p[2]), NumOf(p[1])>>) ELSE ValueError
        ELSE IF fmt = "%Y-%m-%d" THEN
            IF Match_Y(p[1]) /\ Match_m(p[2]) /\ Match_d(p[3])
               /\ ValidDate(NumOf(p[1]), NumOf(p[2]), NumOf(p[3]))
            THEN Ok(<<NumOf(p[1]), NumOf(p[2]), NumOf(p[3])>>) ELSE ValueError
        ELSE
            IF Match_d(p[1]) /\ Match_m(p[2]) /\ Match_Y(p[3])
               /\ ValidDate(NumOf(p[3]), NumOf(p[2]), NumOf(p[1]))
            THEN Ok(<<NumOf(p[3]), NumOf(p[2]), NumOf(p[1])>>) ELSE ValueError

\* strftime("%Y-%m-%d"): %m and %d are two digits; %Y of a year below 1000
\* is zero-padded or not, as the platform's C library does
strftime(ymd, pad) ==
    ZeroPad(ymd[1], IF pad THEN 4 ELSE 1) \o <<"-">> \o ZeroPad(ymd[2], 2)
        \o <<"-">> \o ZeroPad(ymd[3], 2)

Formats == <<"%d-%m-%y", "%Y-%m-%d", "%d-%m-%Y">>

RECURSIVE TryFormats(_, _, _)
TryFormats(s, fmts, pad) ==
    IF fmts = <<>> THEN ValueError
    ELSE LET r == strptime(s, Head(fmts))
         IN  IF r.ok THEN Ok(strftime(r.v, pad)) ELSE TryFormats(s, Tail(fmts), pad)

parse_date(date_str0, pad) == TryFormats(strip(date_str0), Formats, pad)

-----------------------------------------------------------------------------
(* The input files.  A file is a sequence of line ids; Line gives the text *)
(* of the hand-written lines, GenLine and DupLine generate the long runs   *)
(* of well-formed lines that fill several batches.  ExpectTs / ExpectDemo  *)
(* record what the loaders make of each hand-written line (marker: a       *)
(* blank, directive, header or quoted line; short: too few fields; bad: a  *)
(* field that does not coerce; good: an accepted row).                     *)

Line ==
    <<
      <<"s", "e", "p", "=", ",">>,   \* 1
      <<"d", "a", "t", "a", "_", "d", "a", "t", "e", ",", "i", "n", "d", "i", "v", "i", "d", "u", "a", "l", "s">>,   \* 2
      <<>>,   \* 3
      <<"\"", "U", "N", "H", "C", "R", " ", "e", "x", "p", "o", "r", "t", "\"">>,   \* 4
      <<"g", "a", "r", "b", "a", "g", "e">>,   \* 5
      <<"b", "a", "d", ",", "l", "i", "n", "e", ",", "x">>,   \* 6
      <<"1", "6", "-", "1", "2", "-", "1", "1", ",", "1", "0", "0", "0">>,   \* 7
      <<"1", "9", "-", "0", "2", "-", "2", "6", ",", "2", "0", "0", "0">>,   \* 8
      <<"3", "1", "-", "1", "2", "-", "2", "1", ",", "5">>,   \* 9
      <<"2", "0", "2", "1", "-", "1", "2", "-", "3", "1", ",", "7">>,   \* 10
      <<"3", "1", "-", "1", "2", "-", "2", "0", "2", "1", ",", "9", "\r">>,   \* 11
      <<"1", "6", "-", "1", "2", "-", "1", "1", ",", "a", "b", "c">>,   \* 12
      <<"3", "1", "-", "0", "2", "-", "2", "1", ",", "5">>,   \* 13
      <<"1", "6", "-", "1", "2", "-", "1", "1", ",", "-", "5">>,   \* 14
      <<" ", "1", "-", "2", "-", "1", "1", " ", ",", " ", "1", "_", "0", "0", "0", " ">>,   \* 15
      <<"1", NUL, "0", NUL, "-", NUL, "0", NUL, "3", NUL, "-", NUL, "1", NUL, "2", NUL, ",", NUL, "7", NUL>>,   \* 16
      <<"d", "a", "t", "e", ",", "m", "o", "n", "t", "h", ",", "y", "e", "a", "r", ",", "m", "a", "l", "e", "_", "t", "o", "t", "a", "l", ",", "f", "e", "m", "a", "l", "e", "_", "t", "o", "t", "a", "l", ",", "c", "h", "i", "l", "d", "r", "e", "n", "_", "t", "o", "t", "a", "l", ",", "u", "a", "c", "_", "t", "o", "t", "a", "l">>,   \* 17
      <<"1", "9", "-", "0", "2", "-", "2", "6", ",", "2", ",", "2", "0", "2", "6", ",", "1", "0", "0", ",", "2", "0", "0", ",", "3", "0", "0", ",", "4">>,   \* 18
      <<"1", "9", "-", "0", "2", "-", "2", "6", ",", "1", "3", ",", "2", "0", "2", "6", ",", "1", "0", "0", ",", "2", "0", "0", ",", "3", "0", "0", ",", "4">>,   \* 19
      <<"1", "9", "-", "0", "2", "-", "2", "6", ",", "2", ",", "2", "0", "2", "6", ",", "1", "0", "0", ",", "-", "2", "0", "0", ",", "3", "0", "0", ",", "4">>,   \* 20
      <<"1", "9", "-", "0", "2", "-", "2", "6", ",", "2", ",", "2", "0", "2", "6", ",", "1", "0", "0", ",", "2", "0", "0", ",", "3", "0", "0">>,   \* 21
      <<"1", "9", "-", "0", "2", "-", "2", "6", ",", "2", ",", "2", "0", "2", "6", ",", "1", "0", "0", ",", "x", ",", "3", "0", "0", ",", "4">>,   \* 22
      <<"b", "a", "d", ",", "2", ",", "2", "0", "2", "6", ",", "1", "0", "0", ",", "2", "0", "0", ",", "3", "0", "0", ",", "4">>,   \* 23
      <<"1", "6", "-", "1", "2", "-", "1", "1", ",", "1", "2", ",", "2", "0", "1", "1", ",", "1", ",", "2", ",", "3", ",", "4">>,   \* 24
      <<"2", "0", "2", "6", "-", "0", "2", "-", "1", "9", ",", "2", ",", "2", "0", "2", "6", ",", "9", ",", "9", ",", "9", ",", "9">>   \* 25
    >>

ExpectTs ==
    <<
      [kind |-> "marker", data_date |-> <<>>, individuals |-> 0],   \* 1
      [kind |-> "marker", data_date |-> <<>>, individuals |-> 0],   \* 2
      [kind |-> "marker", data_date |-> <<>>, individuals |-> 0],   \* 3
      [kind |-> "marker", data_date |-> <<>>, individuals |-> 0],   \* 4
      [kind |-> "short", data_date |-> <<>>, individuals |-> 0],   \* 5
      [kind |-> "bad", data_date |-> <<>>, individuals |-> 0],   \* 6
      [kind |-> "good", data_date |-> <<"2", "0", "1", "1", "-", "1", "2", "-", "1", "6">>, individuals |-> 1000],   \* 7
      [kind |-> "good", data_date |-> <<"2", "0", "2", "6", "-", "0", "2", "-", "1", "9">>, individuals |-> 2000],   \* 8
      [kind |-> "good", data_date |-> <<"2", "0", "2", "1", "-", "1", "2", "-", "3", "1">>, individuals |-> 5],   \* 9
      [kind |-> "good", data_date |-> <<"2", "0", "2", "1", "-", "1", "2", "-", "3", "1">>, individuals |-> 7],   \* 10
      [kind |-> "good", data_date |-> <<"2", "0", "2", "1", "-", "1", "2", "-", "3", "1">>, individuals |-> 9],   \* 11
      [kind |-> "bad", data_date |-> <<>>, individuals |-> 0],   \* 12
      [kind |-> "bad", data_date |-> <<>>, individuals |-> 0],   \* 13
      [kind |-> "good", data_date |-> <<"2", "0", "1", "1", "-", "1", "2", "-", "1", "6">>, individuals |-> -5],   \* 14
      [kind |-> "good", data_date |-> <<"2", "0", "1", "1", "-", "0", "2", "-", "0", "1">>, individuals |-> 1000],   \* 15
      [kind |-> "good", data_date |-> <<"2", "0", "1", "2", "-", "0", "3", "-", "1", "0">>, individuals |-> 7],   \* 16
      [kind |-> "bad", data_date |-> <<>>, individuals |-> 0],   \* 17
      [kind |-> "good", data_date |-> <<"2", "0", "2", "6", "-", "0", "2", "-", "1", "9">>, individuals |-> 2],   \* 18
      [kind |-> "good", data_date |-> <<"2", "0", "2", "6", "-", "0", "2", "-", "1", "9">>, individuals |-> 13],   \* 19
      [kind |-> "good", data_date |-> <<"2", "0", "2", "6", "-", "0", "2", "-", "1", "9">>, individuals |-> 2],   \* 20
      [kind |-> "good", data_date |-> <<"2", "0", "2", "6", "-", "0", "2", "-", "1", "9">>, individuals |-> 2],   \* 21
      [kind |-> "good", data_date |-> <<"2", "0", "2", "6", "-", "0", "2", "-", "1", "9">>, individuals |-> 2],   \* 22
      [kind |-> "bad", data_date |-> <<>>, individuals |-> 0],   \* 23
      [kind |-> "good", data_date |-> <<"2", "0", "1", "1", "-", "1", "2", "-", "1", "6">>, individuals |-> 12],   \* 24
      [kind |-> "good", data_date |-> <<"2", "0", "2", "6", "-", "0", "2", "-", "1", "9">>, individuals |-> 2]   \* 25
    >>

ExpectDemo ==
    <<
      [kind |-> "marker", row |-> <<<<>>, 0, 0, 0, 0, 0, 0>>],   \* 1
      [kind |-> "short", row |-> <<<<>>, 0, 0, 0, 0, 0, 0>>],   \* 2
      [kind |-> "marker", row |-> <<<<>>, 0, 0, 0, 0, 0, 0>>],   \* 3
      [kind |-> "marker", row |-> <<<<>>, 0, 0, 0, 0, 0, 0>>],   \* 4
      [kind |-> "short", row |-> <<<<>>, 0, 0, 0, 0, 0, 0>>],   \* 5
      [kind |-> "short", row |-> <<<<>>, 0, 0, 0, 0, 0, 0>>],   \* 6
      [kind |-> "short", row |-> <<<<>>, 0, 0, 0, 0, 0, 0>>],   \* 7
      [kind |-> "short", row |-> <<<<>>, 0, 0, 0, 0, 0, 0>>],   \* 8
      [kind |-> "short", row |-> <<<<>>, 0, 0, 0, 0, 0, 0>>],   \* 9
      [kind |-> "short", row |-> <<<<>>, 0, 0, 0, 0, 0, 0>>],   \* 10
      [kind |-> "short", row |-> <<<<>>, 0, 0, 0, 0, 0, 0>>],   \* 11
      [kind |-> "short", row |-> <<<<>>, 0, 0, 0, 0, 0, 0>>],   \* 12
      [kind |-> "short", row |-> <<<<>>, 0, 0, 0, 0, 0, 0>>],   \* 13
      [kind |-> "short", row |-> <<<<>>, 0, 0, 0, 0, 0, 0>>],   \* 14
      [kind |-> "short", row |-> <<<<>>, 0, 0, 0, 0, 0, 0>>],   \* 15
      [kind |-> "short", row |-> <<<<>>, 0, 0, 0, 0, 0, 0>>],   \* 16
      [kind |-> "marker", row |-> <<<<>>, 0, 0, 0, 0, 0, 0>>],   \* 17
      [kind |-> "good", row |-> <<<<"2", "0", "2", "6", "-", "0", "2", "-", "1", "9">>, 2, 2026, 100, 200, 300, 4>>],   \* 18
      [kind |-> "good", row |-> <<<<"2", "0", "2", "6", "-", "0", "2", "-", "1", "9">>, 13, 2026, 100, 200, 300, 4>>],   \* 19
      [kind |-> "good", row |-> <<<<"2", "0", "2", "6", "-", "0", "2", "-", "1", "9">>, 2, 2026, 100, -200, 300, 4>>],   \* 20
      [kind |-> "short", row |-> <<<<>>, 0, 0, 0, 0, 0, 0>>],   \* 21
      [kind |-> "bad", row |-> <<<<>>, 0, 0, 0, 0, 0, 0>>],   \* 22
      [kind |-> "bad", row |-> <<<<>>, 0, 0, 0, 0, 0, 0>>],   \* 23
      [kind |-> "good", row |-> <<<<"2", "0", "1", "1", "-", "1", "2", "-", "1", "6">>, 12, 2011, 1, 2, 3, 4>>],   \* 24
      [kind |-> "good", row |-> <<<<"2", "0", "2", "6", "-", "0", "2", "-", "1", "9">>, 2, 2026, 9, 9, 9, 9>>]   \* 25
    >>


\* the k-th day of the generated run: distinct valid dates from 2011-01-01 on
DayDate(k) ==
    <<2011 + ((k - 1) \div 336), 1 + (((k - 1) \div 28) % 12), 1 + ((k - 1) % 28)>>

IsoText(ymd) ==
    ZeroPad(ymd[1], 4) \o <<"-">> \o ZeroPad(ymd[2], 2) \o <<"-">> \o ZeroPad(ymd[3], 2)

Dmy2Text(ymd) ==
    ZeroPad(ymd[3], 2) \o <<"-">> \o ZeroPad(ymd[2], 2) \o <<"-">>
        \o ZeroPad(ymd[1] % 100, 2)

Dmy4Text(ymd) ==
    ZeroPad(ymd[3], 2) \o <<"-">> \o ZeroPad(ymd[2], 2) \o <<"-">> \o ZeroPad(ymd[1], 4)

\* ids 101.. : day k as DD-MM-YY with 10k individuals
GenLine(k) == Dmy2Text(DayDate(k)) \o <<",">> \o ZeroPad(10 * k, 1)

\* ids 501.. : day k again, as YYYY-MM-DD with 10k+1 individuals
DupLine(k) == IsoText(DayDate(k)) \o <<",">> \o ZeroPad(10 * k + 1, 1)

LineText(id) ==
    IF id <= Len(Line) THEN Line[id]
    ELSE IF id <= 500 THEN GenLine(id - 100) ELSE DupLine(id - 500)

ExpectTsOf(id) ==
    IF id <= Len(Line) THEN ExpectTs[id]
    ELSE IF id <= 500
         THEN [kind |-> "good", data_date |-> IsoText(DayDate(id - 100)),
               individuals |-> 10 * (id - 100)]
         ELSE [kind |-> "good", data_date |-> IsoText(DayDate(id - 500)),
               individuals |-> 10 * (id - 500) + 1]

ExpectDemoOf(id) ==
    IF id <= Len(Line) THEN ExpectDemo[id]
    ELSE [kind |-> "short", row |-> <<<<>>, 0, 0, 0, 0, 0, 0>>]

\* the bytes of a file on disk: its lines joined by newlines
RECURSIVE FileBytes(_)
FileBytes(file) ==
    IF file = <<>> THEN <<>>
    ELSE IF Len(file) = 1 THEN LineText(file[1])
    ELSE FileBytes(SubSeq(file, 1, Len(file) \div 2)) \o <<"\n">>
             \o FileBytes(SubSeq(file, (Len(file) \div 2) + 1, Len(file)))

-----------------------------------------------------------------------------
(* load_unhcr_data.py: the functions.                                      *)

BatchSize == 100

NotRemoved(c) == c \notin {NUL, BADBYTE}

\* raw.replace(b"\x00", b"").decode("utf-8", errors="ignore")
clean_csv_bytes(file) == SelectSeq(FileBytes(file), NotRemoved)

\* (mutant) the directive and the quoted lines are not recognised
SkipsTsHeaderOnly(line) ==
    \/ line = <<>>
    \/ startswith(line, <<"d", "a", "t", "a", "_", "d", "a", "t", "e">>)

\* the lines the timeseries loop passes over without counting them
SkipsTs(line) ==
    \/ line = <<>>
    \/ startswith(line, <<"s", "e", "p", "=">>)
    \/ startswith(line, <<"d", "a", "t", "a", "_", "d", "a", "t", "e">>)
    \/ startswith(line, <<"\"">>)

\* the lines the demographics loop passes over
SkipsDemo(line) ==
    \/ line = <<>>
    \/ startswith(line, <<"s", "e", "p", "=">>)
    \/ startswith(line, <<"d", "a", "t", "e">>)
    \/ startswith(line, <<"\"">>)

\* the try block of load_population_timeseries for one line's parts
TimeseriesRow(parts, pad) ==
    LET d == parse_date(parts[1], pad)
        n == int(strip(parts[2]))
    IN  IF d.ok /\ n.ok
        THEN Ok([data_date |-> d.v, individuals |-> n.v])
        ELSE ValueError

IsRow(r) == r.does = "append"

\* (mutant) a line of too few fields is counted as skipped
TimeseriesLineCountsShort(line0, pad) ==
    LET line  == strip(line0)
        parts == split(line, ",")
        r     == TimeseriesRow(parts, pad)
    IN  IF SkipsTs(line) THEN [does |-> "continue", row |-> <<>>]
        ELSE IF Len(parts) < 2 THEN [does |-> "skipped += 1", row |-> <<>>]
        ELSE IF r.ok THEN [does |-> "append", row |-> r.v]
        ELSE [does |-> "skipped += 1", row |-> <<>>]

\* one pass of the loop of load_population_timeseries: continue, append the
\* row, or count the line as skipped
TimeseriesLine(line0, pad) ==
    LET line  == strip(line0)
        parts == split(line, ",")
        r     == TimeseriesRow(parts, pad)
    IN  IF SkipsTs(line) \/ Len(parts) < 2 THEN [does |-> "continue", row |-> <<>>]
        ELSE IF r.ok THEN [does |-> "append", row |-> r.v]
        ELSE [does |-> "skipped += 1", row |-> <<>>]

\* the parse loop of load_population_timeseries: rows, in the order of the
\* lines that appended one, and skipped
ParseTimeseries(lines, pad) ==
    LET pass == [k \in 1..Len(lines) |-> TimeseriesLine(lines[k], pad)]
        app  == SelectSeq(pass, IsRow)
    IN  [rows    |-> [k \in 1..Len(app) |-> app[k].row],
         skipped |-> Cardinality({k \in 1..Len(lines) : pass[k].does = "skipped += 1"})]

\* the try block of load_population_demographics for one line's parts
DemographicsRow(parts, pad) ==
    LET d == parse_date(parts[1], pad)
        n == [k \in 2..7 |-> int(strip(parts[k]))]
    IN  IF d.ok /\ \A k \in 2..7 : n[k].ok
        THEN Ok([snapshot_date |-> d.v, month |-> n[2].v, year |-> n[3].v,
                 male_total |-> n[4].v, female_total |-> n[5].v,
                 children_total |-> n[6].v, uac_total |-> n[7].v])
        ELSE ValueError

\* one pass of the loop of load_population_demographics: continue, append
\* the row, or print the line as skipped (nothing is counted)
DemographicsLine(line0, pad) ==
    LET line  == strip(line0)
        parts == split(line, ",")
        r     == DemographicsRow(parts, pad)
    IN  IF SkipsDemo(line) \/ Len(parts) < 7 THEN [does |-> "continue", row |-> <<>>]
        ELSE IF r.ok THEN [does |-> "append", row |-> r.v]
        ELSE [does |-> "print", row |-> <<>>]

\* the parse loop of load_population_demographics: rows
ParseDemographics(lines, pad) ==
    LET pass == [k \in 1..Len(lines) |-> DemographicsLine(lines[k], pad)]
        app  == SelectSeq(pass, IsRow)
    IN  [k \in 1..Len(app) |-> app[k].row]

\* (mutant) the first row of a date is kept
DictSetKeepsFirst(d, row) ==
    IF \E k \in 1..Len(d) : d[k].data_date = row.data_date THEN d ELSE Append(d, row)

\* deduped[row["data_date"]] = row: a dict keeps a key's first position and
\* takes its last value
DictSet(d, row) ==
    IF \E k \in 1..Len(d) : d[k].data_date = row.data_date
    THEN [k \in 1..Len(d) |-> IF d[k].data_date = row.data_date THEN row ELSE d[k]]
    ELSE Append(d, row)

\* list(deduped.values()) after the loop over rows, from the dict d: the
\* rows are set one after the other, the left half (whose dict is computed
\* first) and then the right half
RECURSIVE Deduplicate(_, _)
Deduplicate(rs, d) ==
    IF rs = <<>> THEN d
    ELSE IF Len(rs) = 1 THEN DictSet(d, rs[1])
    ELSE LET left == Deduplicate(SubSeq(rs, 1, Len(rs) \div 2), d)
         IN  IF left = <<>> THEN <<>>
             ELSE Deduplicate(SubSeq(rs, (Len(rs) \div 2) + 1, Len(rs)), left)

Min(a, b) == IF a < b THEN a ELSE b

\* (mutant) rows[i:i+99]
BatchOneShort(rs, start) == SubSeq(rs, start + 1, Min(start + BatchSize - 1, Len(rs)))

\* rows[i:i+100]
Batch(rs, start) == SubSeq(rs, start + 1, Min(start + BatchSize, Len(rs)))

-----------------------------------------------------------------------------
(* The external store, as the loader uses it.                              *)

\* one row of .upsert(..., on_conflict=key): a row with the key's value is
\* overwritten in place, a new key's row is added
UpsertRow(table, row, key) ==
    IF \E k \in 1..Len(table) : table[k][key] = row[key]
    THEN [k \in 1..Len(table) |-> IF table[k][key] = row[key] THEN row ELSE table[k]]
    ELSE Append(table, row)

\* .insert(batch) in place of the upsert: every row is added
Insert(table, batch, key) == table \o batch

\* supabase.table(t).upsert(batch, on_conflict=key).execute(), when it
\* succeeds: the rows of the batch one after the other
RECURSIVE Upsert(_, _, _)
Upsert(table, batch, key) ==
    IF batch = <<>> THEN table
    ELSE IF Len(batch) = 1 THEN UpsertRow(table, batch[1], key)
    ELSE LET left == Upsert(table, SubSeq(batch, 1, Len(batch) \div 2), key)
         IN  IF left = <<>> THEN <<>>
             ELSE Upsert(left, SubSeq(batch, (Len(batch) \div 2) + 1, Len(batch)), key)

-----------------------------------------------------------------------------
(* load_unhcr_data.py: the script, one action per step that reads the      *)
(* environment or calls the store.                                         *)

MaxRuns == 2

Terminated == pc \in {"exit", "crashed", "done"}

Call(table, batch, on_conflict, ok) ==
    [table |-> table, batch |-> batch, on_conflict |-> on_conflict, ok |-> ok]

\* (mutant) the script goes on without the key
StartupGoesOn ==
    /\ pc = "start"
    /\ pc' = "ts"
    /\ out' = Append(out, "banner")
    /\ UNCHANGED <<run, rows, parsed, skipped, i, inserted, calls, exc,
                   ts_at_call, ts_done>>
    /\ UNCHANGED <<envVars, storeVars, dateVars, apiVars>>
    /\ UNCHANGED returned

\* module setup: without SUPABASE_SERVICE_KEY the script prints an error and exits
Startup ==
    /\ pc = "start"
    /\ IF key_set
       THEN /\ pc' = "ts"
            /\ out' = Append(out, "banner")
       ELSE /\ pc' = "exit"
            /\ out' = Append(out, "ERROR: Set SUPABASE_SERVICE_KEY")
    /\ UNCHANGED <<run, rows, parsed, skipped, i, inserted, calls, exc,
                   ts_at_call, ts_done>>
    /\ UNCHANGED <<envVars, storeVars, dateVars, apiVars>>
    /\ UNCHANGED returned

\* (mutant) the script stops at the file it does not find
TimeseriesFileMissingStops ==
    /\ pc = "ts"
    /\ ~ts_exists
    /\ out' = Append(out, "csv.csv not found")
    /\ pc' = "done"
    /\ UNCHANGED <<run, rows, parsed, skipped, i, inserted, calls, exc,
                   ts_at_call, ts_done>>
    /\ UNCHANGED <<envVars, storeVars, dateVars, apiVars>>
    /\ UNCHANGED returned

\* __main__: csv.csv does not exist
TimeseriesFileMissing ==
    /\ pc = "ts"
    /\ ~ts_exists
    /\ out' = Append(out, "csv.csv not found")
    /\ pc' = "demo"
    /\ UNCHANGED <<run, rows, parsed, skipped, i, inserted, calls, exc,
                   ts_at_call, ts_done>>
    /\ UNCHANGED <<envVars, storeVars, dateVars, apiVars>>
    /\ UNCHANGED returned

\* load_population_timeseries up to its first call of the store: read, parse,
\* return 0 when nothing parsed, else deduplicate
LoadTimeseriesParse ==
    /\ pc = "ts"
    /\ ts_exists
    /\ \E p \in {ParseTimeseries(split(clean_csv_bytes(ts_file), "\n"), pad_year)} :
           /\ parsed' = p.rows
           /\ skipped' = p.skipped
           /\ calls' = <<>>
           /\ ts_at_call' = population_timeseries
           /\ i' = 0
           /\ inserted' = 0
           /\ IF p.rows = <<>>
              THEN /\ rows' = <<>>
                   /\ returned' = [returned EXCEPT !.ts = <<0>>]
                   /\ out' = out \o <<"parsed", "No rows parsed">>
                   /\ ts_done' = Append(ts_done, population_timeseries)
                   /\ pc' = "demo"
              ELSE /\ rows' = Deduplicate(p.rows, <<>>)
                   /\ returned' = returned
                   /\ out' = out \o <<"parsed", "deduplicated">>
                   /\ ts_done' = ts_done
                   /\ pc' = "ts_upsert"
    /\ UNCHANGED <<run, exc>>
    /\ UNCHANGED <<envVars, storeVars, dateVars, apiVars>>

\* one pass of the batch loop whose upsert succeeds; after the last batch the
\* function prints its total and returns
LoadTimeseriesUpsert ==
    /\ pc = "ts_upsert"
    /\ \E batch \in {Batch(rows, i)} :
           /\ population_timeseries' = Upsert(population_timeseries, batch, "data_date")
           /\ calls' = Append(calls, Call("population_timeseries", batch, "data_date", TRUE))
           /\ inserted' = inserted + Len(batch)
           /\ i' = i + BatchSize
           /\ IF i + BatchSize < Len(rows)
              THEN /\ out' = Append(out, "batch")
                   /\ returned' = returned
                   /\ ts_done' = ts_done
                   /\ pc' = "ts_upsert"
              ELSE /\ out' = out \o <<"batch", "timeseries loaded">>
                   /\ returned' = [returned EXCEPT !.ts = <<inserted'>>]
                   /\ ts_done' = Append(ts_done, population_timeseries')
                   /\ pc' = "demo"
    /\ UNCHANGED <<run, rows, parsed, skipped, exc, ts_at_call>>
    /\ UNCHANGED <<population_demographics, camp_locations, alerts>>
    /\ UNCHANGED <<envVars, dateVars, apiVars>>

\* (mutant) the failure is caught and the batch is tried again
LoadTimeseriesUpsertRetried ==
    /\ pc = "ts_upsert"
    /\ calls' = Append(calls, Call("population_timeseries", Batch(rows, i), "data_date", FALSE))
    /\ UNCHANGED <<pc, exc, run, rows, parsed, skipped, i, inserted, out, ts_at_call, ts_done>>
    /\ UNCHANGED <<envVars, storeVars, dateVars, apiVars>>
    /\ UNCHANGED returned

\* the upsert of the batch raises: nothing catches it, in the loader or in
\* __main__, and the process ends with the traceback
LoadTimeseriesUpsertFails ==
    /\ pc = "ts_upsert"
    /\ calls' = Append(calls, Call("population_timeseries", Batch(rows, i), "data_date", FALSE))
    /\ exc' = "upsert population_timeseries"
    /\ pc' = "crashed"
    /\ UNCHANGED <<run, rows, parsed, skipped, i, inserted, out, ts_at_call, ts_done>>
    /\ UNCHANGED <<envVars, storeVars, dateVars, apiVars>>
    /\ UNCHANGED returned

\* __main__: population_timeseries.csv does not exist
DemographicsFileMissing ==
    /\ pc = "demo"
    /\ ~demo_exists
    /\ out' = Append(out, "population_timeseries.csv not found")
    /\ pc' = "ocha"
    /\ UNCHANGED <<run, rows, parsed, skipped, i, inserted, calls, exc,
                   ts_at_call, ts_done>>
    /\ UNCHANGED <<envVars, storeVars, dateVars, apiVars>>
    /\ UNCHANGED returned

\* load_population_demographics up to its call of the store
LoadDemographicsParse ==
    /\ pc = "demo"
    /\ demo_exists
    /\ \E rs \in {ParseDemographics(split(clean_csv_bytes(demo_file), "\n"), pad_year)} :
           /\ rows' = rs
           /\ calls' = <<>>
           /\ IF rs = <<>>
              THEN /\ out' = Append(out, "No valid demographic rows found")
                   /\ returned' = [returned EXCEPT !.demo = <<0>>]
                   /\ pc' = "ocha"
              ELSE /\ out' = out
                   /\ returned' = returned
                   /\ pc' = "demo_upsert"
    /\ UNCHANGED <<run, parsed, skipped, i, inserted, exc, ts_at_call, ts_done>>
    /\ UNCHANGED <<envVars, storeVars, dateVars, apiVars>>

\* upsert(rows) names no on_conflict: the store resolves conflicts on the
\* table's primary key.  The rows carry no id, so under a primary key id each
\* of them is a new row; were snapshot_date the primary key, a row replaces
\* the stored row of its date (and the store refuses a batch that holds a
\* date twice: LoadDemographicsUpsertFails)
DefaultUpsert(table, batch) ==
    {table \o batch}
        \cup IF Cardinality({batch[k].snapshot_date : k \in 1..Len(batch)}) = Len(batch)
             THEN {Upsert(table, batch, "snapshot_date")}
             ELSE {}

\* the one upsert of load_population_demographics succeeds
LoadDemographicsUpsert ==
    /\ pc = "demo_upsert"
    /\ population_demographics' \in DefaultUpsert(population_demographics, rows)
    /\ calls' = Append(calls, Call("population_demographics", rows, "default", TRUE))
    /\ out' = Append(out, "demographics loaded")
    /\ returned' = [returned EXCEPT !.demo = <<Len(rows)>>]
    /\ pc' = "ocha"
    /\ UNCHANGED <<run, rows, parsed, skipped, i, inserted, exc, ts_at_call, ts_done>>
    /\ UNCHANGED <<population_timeseries, camp_locations, alerts>>
    /\ UNCHANGED <<envVars, dateVars, apiVars>>

\* the upsert of load_population_demographics raises: uncaught
LoadDemographicsUpsertFails ==
    /\ pc = "demo_upsert"
    /\ calls' = Append(calls, Call("population_demographics", rows, "default", FALSE))
    /\ exc' = "upsert population_demographics"
    /\ pc' = "crashed"
    /\ UNCHANGED <<run, rows, parsed, skipped, i, inserted, out, ts_at_call, ts_done>>
    /\ UNCHANGED <<envVars, storeVars, dateVars, apiVars>>
    /\ UNCHANGED returned

\* the camps load_ocha_hdx_data upserts
KnownCamps == 2

\* load_ocha_hdx_data: the request, the answer and the upsert may each fail;
\* the function catches every exception
OchaOutcomes == {"request error", "not success", "upsert error", "camps added"}

LoadOchaHdxData ==
    /\ pc = "ocha"
    /\ \E o \in OchaOutcomes :
          /\ camp_locations' =
                 IF o = "camps added" THEN camp_locations + KnownCamps ELSE camp_locations
          /\ out' = Append(out, o)
    /\ pc' = "summary"
    /\ UNCHANGED <<run, rows, parsed, skipped, i, inserted, calls, exc,
                   ts_at_call, ts_done>>
    /\ UNCHANGED <<population_timeseries, population_demographics, alerts>>
    /\ UNCHANGED <<envVars, dateVars, apiVars>>
    /\ UNCHANGED returned

\* print_summary: each table's count query is in its own try, then the last print
PrintSummary ==
    /\ pc = "summary"
    /\ \E failed \in BOOLEAN :
          out' = out \o <<IF failed THEN "summary with errors" ELSE "summary">>
                     \o <<"All done">>
    /\ pc' = "done"
    /\ UNCHANGED <<run, rows, parsed, skipped, i, inserted, calls, exc,
                   ts_at_call, ts_done>>
    /\ UNCHANGED <<envVars, storeVars, dateVars, apiVars>>
    /\ UNCHANGED returned

\* the operator starts the script again, on the same files and the same store
Rerun ==
    /\ pc \in {"crashed", "done"}
    /\ run < MaxRuns
    /\ run' = run + 1
    /\ pc' = "start"
    /\ rows' = <<>> /\ parsed' = <<>> /\ skipped' = 0 /\ i' = 0 /\ inserted' = 0
    /\ calls' = <<>> /\ exc' = "none" /\ out' = <<>>
    /\ ts_at_call' = <<>>
    /\ returned' = [ts |-> <<>>, demo |-> <<>>]
    /\ UNCHANGED ts_done
    /\ UNCHANGED <<envVars, storeVars, dateVars, apiVars>>

-----------------------------------------------------------------------------
(* The inputs of a run of the script.                                      *)

MaxLines == 2
MaxBatches == 2

SeqsUpTo(S, n) == UNION {[1..k -> S] : k \in 0..n}

\* the lines the short files are made of: a directive, a bad date, a good
\* day, and one more day written in two formats with two values
TsAlphabet == {1, 6, 7, 9, 10}

ExampleFile == <<1, 7, 8, 6>>

\* directive, header, n generated days, then day 1 and day n again with
\* other values and a line that does not parse
LongFile(n) == <<1, 2>> \o [k \in 1..n |-> 100 + k] \o <<501, 500 + n, 6>>

LongSizes == {k * BatchSize + e : k \in 1..MaxBatches, e \in {-1, 0, 1}}

ShortTsFiles ==
    SeqsUpTo(TsAlphabet, MaxLines)
        \cup {<<id>> : id \in 1..Len(Line)}
        \cup {ExampleFile, <<1, 2, 4, 3>>, <<2, 16, 15, 11, 14, 13, 4, 9>>,
              <<3, 12, 7, 5>>, <<7, 3, 12, 14>>}

LongTsFiles == {LongFile(n) : n \in LongSizes}

DemoFiles ==
    {<<id>> : id \in 17..Len(Line)}
        \cup {<<>>, <<17, 18>>, <<17, 18, 24, 25>>, <<17, 19, 20, 21, 22, 23>>,
              <<7, 21>>, <<3, 22, 23>>}

File(exists, file) == [exists |-> exists, file |-> file]

Scenarios ==
    {[ts |-> File(TRUE, f), demo |-> d] :
        f \in ShortTsFiles, d \in {File(FALSE, <<>>), File(TRUE, <<17, 18>>)}}
    \cup
    {[ts |-> File(TRUE, f), demo |-> File(FALSE, <<>>)] : f \in LongTsFiles}
    \cup
    {[ts |-> t, demo |-> File(TRUE, f)] :
        t \in {File(FALSE, <<>>), File(TRUE, ExampleFile)}, f \in DemoFiles}

\* what population_timeseries may hold before the first run: nothing, or a
\* day of the files with another value and a day of no file
InitTimeseries ==
    {<<>>,
     <<[data_date |-> IsoText(<<2011, 12, 16>>), individuals |-> 1],
       [data_date |-> IsoText(<<2000, 1, 1>>), individuals |-> 42]>>}

NumAlerts == 2

NoResponse == [endpoint |-> "none", status |-> 0, detail |-> "none",
               raised |-> "none", data |-> {}]

LoaderIdle ==
    /\ run = 1
    /\ rows = <<>> /\ parsed = <<>> /\ skipped = 0 /\ i = 0 /\ inserted = 0
    /\ calls = <<>> /\ exc = "none" /\ out = <<>>
    /\ ts_at_call = <<>> /\ ts_done = <<>>
    /\ returned = [ts |-> <<>>, demo |-> <<>>]

DateIdle ==
    /\ date_src = [fmt |-> "none", ymd |-> <<0, 0, 0>>, padded |-> TRUE]
    /\ date_str = <<>>
    /\ date_res = [called |-> FALSE, ok |-> FALSE, v |-> <<>>]

ApiIdle ==
    /\ api_state = "off"
    /\ api_key = "none"
    /\ response = NoResponse

\* the script is started: any key setting, files and stored timeseries
Init ==
    /\ key_set \in BOOLEAN
    /\ pad_year = TRUE
    /\ \E sc \in Scenarios :
          /\ ts_exists = sc.ts.exists /\ ts_file = sc.ts.file
          /\ demo_exists = sc.demo.exists /\ demo_file = sc.demo.file
    /\ population_timeseries \in InitTimeseries
    /\ population_demographics = <<>>
    /\ camp_locations = 0
    /\ alerts = [a \in 1..NumAlerts |-> [acknowledged |-> FALSE, acknowledged_by |-> "none"]]
    /\ pc = "start"
    /\ LoaderIdle
    /\ DateIdle
    /\ ApiIdle

LoaderNext ==
    \/ Startup
    \/ TimeseriesFileMissing
    \/ LoadTimeseriesParse
    \/ LoadTimeseriesUpsert
    \/ LoadTimeseriesUpsertFails
    \/ DemographicsFileMissing
    \/ LoadDemographicsParse
    \/ LoadDemographicsUpsert
    \/ LoadDemographicsUpsertFails
    \/ LoadOchaHdxData
    \/ PrintSummary
    \/ Rerun

Next == LoaderNext

Spec == Init /\ [][Next]_vars

-----------------------------------------------------------------------------
(* parse_date on its own: a calendar day written in one of the three       *)
(* formats (zero-padded or not), or an irregular string of RawDates, whose *)
(* outcome under the code is ExpectRaw.                                    *)

RawDates ==
    <<
      <<"b", "a", "d">>,
      <<>>,
      <<"1", "6", "-", "-", "1", "2", "-", "1", "1">>,
      <<"1", "6", "-", "1", "2", "-", "1">>,
      <<"1", "6", "-", "1", "2", "-", "0", "1", "1">>,
      <<"2", "0", "1", "1", "-", "1", "2", "-", "1", "6", "1", "1">>,
      <<"1", "6", "/", "1", "2", "/", "1", "1">>,
      <<"2", "0", "1", "1", "-", "1", "2", "-", " ", "5">>,
      <<" ", "1", "6", "-", "1", "2", "-", "1", "1", "\r">>,
      <<"+", "1", "-", "2", "-", "1", "1">>,
      <<"1", "6", "-", "1", "2", "-", "1", "1", "x">>,
      <<" ", "5", "-", "1", "2", "-", "1", "1">>,
      <<"5", "-", " ", "3", "-", "1", "1">>,
      <<"1", "6", "-", "1", "2">>
    >>

ExpectRaw ==
    <<
      ValueError,
      ValueError,
      ValueError,
      ValueError,
      ValueError,
      ValueError,
      ValueError,
      Ok(<<"2", "0", "1", "1", "-", "1", "2", "-", "0", "5">>),
      Ok(<<"2", "0", "1", "1", "-", "1", "2", "-", "1", "6">>),
      ValueError,
      ValueError,
      Ok(<<"2", "0", "1", "1", "-", "1", "2", "-", "0", "5">>),
      ValueError,
      ValueError
    >>

DateYears  == {999, 1950, 1968, 1969, 2000, 2011, 2020, 2021, 2026, 2068, 2069}
DateMonths == {1, 2, 9, 12, 13}
DateDays   == {1, 9, 16, 29, 31, 32}

DateSources ==
    {[fmt |-> f, ymd |-> <<y, mo, d>>, padded |-> pd] :
        f \in {"dmy2", "iso", "dmy4"}, y \in DateYears, mo \in DateMonths,
        d \in DateDays, pd \in BOOLEAN}
    \cup {[fmt |-> "raw", ymd |-> <<k, 0, 0>>, padded |-> TRUE] : k \in 1..Len(RawDates)}

\* the day src.ymd as somebody writes it in the format src.fmt
WriteDate(src) ==
    LET w  == IF src.padded THEN 2 ELSE 1
        dd == ZeroPad(src.ymd[3], w)
        mm == ZeroPad(src.ymd[2], w)
    IN  IF src.fmt = "raw" THEN RawDates[src.ymd[1]]
        ELSE IF src.fmt = "dmy2"
        THEN dd \o <<"-">> \o mm \o <<"-">> \o ZeroPad(src.ymd[1] % 100, 2)
        ELSE IF src.fmt = "iso"
        THEN ZeroPad(src.ymd[1], 4) \o <<"-">> \o mm \o <<"-">> \o dd
        ELSE dd \o <<"-">> \o mm \o <<"-">> \o ZeroPad(src.ymd[1], 4)

DateInit ==
    /\ key_set = TRUE
    /\ pad_year \in BOOLEAN
    /\ ts_exists = FALSE /\ ts_file = <<>>
    /\ demo_exists = FALSE /\ demo_file = <<>>
    /\ population_timeseries = <<>>
    /\ population_demographics = <<>>
    /\ camp_locations = 0
    /\ alerts = [a \in 1..NumAlerts |-> [acknowledged |-> FALSE, acknowledged_by |-> "none"]]
    /\ pc = "off"
    /\ LoaderIdle
    /\ date_src \in DateSources
    /\ date_str = WriteDate(date_src)
    /\ date_res = [called |-> FALSE, ok |-> FALSE, v |-> <<>>]
    /\ ApiIdle

\* a call of parse_date
ParseDate ==
    /\ ~date_res.called
    /\ \E r \in {parse_date(date_str, pad_year)} :
          date_res' = [called |-> TRUE, ok |-> r.ok, v |-> r.v]
    /\ UNCHANGED <<date_src, date_str>>
    /\ UNCHANGED <<envVars, storeVars, loaderVars, apiVars>>

DateSpec == DateInit /\ [][ParseDate]_vars

-----------------------------------------------------------------------------
(* main.py: the module's setup and its handlers.  A handler's queries to   *)
(* the store each succeed or raise; of the tables only alerts is kept, the *)
(* one a handler both writes and filters on.                               *)

StoreErrors == {"timeout", "permission denied"}

AlertIds == 1..(NumAlerts + 1)      \* the last one is the id of no alert

\* (mutant) the handler answers the failure with a success response
ReturnedError(ep, e) ==
    [endpoint |-> ep, status |-> 200, detail |-> e, raised |-> e, data |-> {}]

\* raise HTTPException(status_code=500, detail=str(e))
HTTPException(ep, e) ==
    [endpoint |-> ep, status |-> 500, detail |-> e, raised |-> e, data |-> {}]

\* a handler's return value, sent as 200
Returned(ep, detail, raised, data) ==
    [endpoint |-> ep, status |-> 200, detail |-> detail, raised |-> raised, data |-> data]

\* try: the queries, return ...  except Exception as e: raise HTTPException(...)
\* all of a handler's queries succeed, or the first that fails raises e
Handle(ep, data) ==
    /\ api_state = "running"
    /\ \E e \in {"none"} \cup StoreErrors :
          response' = IF e = "none" THEN Returned(ep, "ok", "none", data)
                      ELSE HTTPException(ep, e)

Unacknowledged == {a \in 1..NumAlerts : ~alerts[a].acknowledged}

ReadOnly ==
    /\ UNCHANGED <<api_state, api_key>>
    /\ UNCHANGED <<envVars, storeVars, loaderVars, dateVars>>

\* module setup: without SUPABASE_SERVICE_KEY the module warns and goes on
\* with the anon key
ApiImport ==
    /\ api_state = "import"
    /\ api_key' = IF key_set THEN "service" ELSE "anon"
    /\ api_state' = "running"
    /\ UNCHANGED response
    /\ UNCHANGED <<envVars, storeVars, loaderVars, dateVars>>

root ==
    /\ api_state = "running"
    /\ response' = Returned("GET /", "ok", "none", {})
    /\ ReadOnly

get_population_timeseries == Handle("GET /api/population/timeseries", {}) /\ ReadOnly

get_latest_population == Handle("GET /api/population/latest", {}) /\ ReadOnly

get_population_trend == Handle("GET /api/population/trend", {}) /\ ReadOnly

get_camps == Handle("GET /api/camps", {}) /\ ReadOnly

get_camps_summary == Handle("GET /api/camps/summary", {}) /\ ReadOnly

get_detections == Handle("GET /api/detections", {}) /\ ReadOnly

get_detection_stats == Handle("GET /api/detections/stats", {}) /\ ReadOnly

get_flights == Handle("GET /api/flights", {}) /\ ReadOnly

create_flight == Handle("POST /api/flights", {}) /\ ReadOnly

get_trucks == Handle("GET /api/trucks", {}) /\ ReadOnly

update_truck == Handle("PUT /api/trucks/update", {}) /\ ReadOnly

\* the response's endpoint carries the query when it is not the default
get_alerts ==
    /\ \E include_acknowledged \in BOOLEAN :
          IF include_acknowledged
          THEN Handle("GET /api/alerts?include_acknowledged=true", 1..NumAlerts)
          ELSE Handle("GET /api/alerts", Unacknowledged)
    /\ ReadOnly

\* (mutant) the update without its filter on id
AcknowledgeEveryAlert ==
    /\ api_state = "running"
    /\ alerts' = [a \in 1..NumAlerts |->
                    [acknowledged |-> TRUE, acknowledged_by |-> "operator"]]
    /\ response' = Returned("POST /api/alerts/acknowledge", "success", "none", {})
    /\ UNCHANGED <<api_state, api_key>>
    /\ UNCHANGED <<population_timeseries, population_demographics, camp_locations>>
    /\ UNCHANGED <<envVars, loaderVars, dateVars>>

\* the update of the rows with the id: none when no alert has it
acknowledge_alert ==
    /\ api_state = "running"
    /\ \E alert_id \in AlertIds, e \in {"none"} \cup StoreErrors :
          IF e = "none"
          THEN /\ alerts' = [a \in 1..NumAlerts |->
                               IF a = alert_id
                               THEN [acknowledged |-> TRUE, acknowledged_by |-> "operator"]
                               ELSE alerts[a]]
               /\ response' = Returned("POST /api/alerts/acknowledge", "success", "none", {})
          ELSE /\ alerts' = alerts
               /\ response' = HTTPException("POST /api/alerts/acknowledge", e)
    /\ UNCHANGED <<api_state, api_key>>
    /\ UNCHANGED <<population_timeseries, population_demographics, camp_locations>>
    /\ UNCHANGED <<envVars, loaderVars, dateVars>>

get_resources == Handle("GET /api/resources", {}) /\ ReadOnly

get_resources_summary == Handle("GET /api/resources/summary", {}) /\ ReadOnly

get_dashboard_data == Handle("GET /api/dashboard", Unacknowledged) /\ ReadOnly

\* try: the ping  except: db_status = "error"; the return is outside the try
health ==
    /\ api_state = "running"
    /\ \E e \in {"none"} \cup StoreErrors :
          response' = IF e = "none"
                      THEN Returned("GET /health", "database: connected", "none", {})
                      ELSE Returned("GET /health", "database: error", e, {})
    /\ ReadOnly

ApiInit ==
    /\ key_set \in BOOLEAN
    /\ pad_year = TRUE
    /\ ts_exists = FALSE /\ ts_file = <<>>
    /\ demo_exists = FALSE /\ demo_file = <<>>
    /\ population_timeseries = <<>>
    /\ population_demographics = <<>>
    /\ camp_locations = 0
    /\ alerts \in [1..NumAlerts ->
                     {[acknowledged |-> FALSE, acknowledged_by |-> "none"],
                      [acknowledged |-> TRUE, acknowledged_by |-> "earlier"]}]
    /\ pc = "off"
    /\ LoaderIdle
    /\ DateIdle
    /\ api_state = "import"
    /\ api_key = "none"
    /\ response = NoResponse

ApiNext ==
    \/ ApiImport
    \/ root
    \/ get_population_timeseries
    \/ get_latest_population
    \/ get_population_trend
    \/ get_camps
    \/ get_camps_summary
    \/ get_detections
    \/ get_detection_stats
    \/ get_flights
    \/ create_flight
    \/ get_trucks
    \/ update_truck
    \/ get_alerts
    \/ acknowledge_alert
    \/ get_resources
    \/ get_resources_summary
    \/ get_dashboard_data
    \/ health

ApiSpec == ApiInit /\ [][ApiNext]_vars

-----------------------------------------------------------------------------
(* Both processes of the repository, each started once or more, on the     *)
(* same environment and store.                                             *)

SystemScenarios ==
    {[ts |-> File(TRUE, ExampleFile), demo |-> File(FALSE, <<>>)],
     [ts |-> File(FALSE, <<>>), demo |-> File(TRUE, <<17, 18, 22>>)]}

SystemInit ==
    /\ key_set \in BOOLEAN
    /\ pad_year = TRUE
    /\ \E sc \in SystemScenarios :
          /\ ts_exists = sc.ts.exists /\ ts_file = sc.ts.file
          /\ demo_exists = sc.demo.exists /\ demo_file = sc.demo.file
    /\ population_timeseries = <<>>
    /\ population_demographics = <<>>
    /\ camp_locations = 0
    /\ alerts = [a \in 1..NumAlerts |-> [acknowledged |-> FALSE, acknowledged_by |-> "none"]]
    /\ pc = "start"
    /\ LoaderIdle
    /\ DateIdle
    /\ api_state = "import"
    /\ api_key = "none"
    /\ response = NoResponse

SystemNext == LoaderNext \/ ApiNext

SystemSpec == SystemInit /\ [][SystemNext]_vars

-----------------------------------------------------------------------------
(* The claims.                                                             *)

\* the timeseries loader of this run has parsed its file
TsParsed ==
    /\ ts_exists
    /\ pc \in {"ts_upsert", "demo", "demo_upsert", "ocha", "summary", "done", "crashed"}

\* the demographics loader of this run has parsed its file
DemoParsed ==
    /\ demo_exists
    /\ \/ pc \in {"demo_upsert", "ocha", "summary", "done"}
       \/ pc = "crashed" /\ exc = "upsert population_demographics"

\* the upsert calls of the timeseries loader, while calls holds them
TsCalls == {c \in 1..Len(calls) : calls[c].table = "population_timeseries"}

ExpectTsRow(id) ==
    [data_date |-> ExpectTsOf(id).data_date, individuals |-> ExpectTsOf(id).individuals]

ExpectDemoRow(id) ==
    LET t == ExpectDemoOf(id).row
    IN  [snapshot_date |-> t[1], month |-> t[2], year |-> t[3], male_total |-> t[4],
         female_total |-> t[5], children_total |-> t[6], uac_total |-> t[7]]

IsGoodTs(id) == ExpectTsOf(id).kind = "good"
IsGoodDemo(id) == ExpectDemoOf(id).kind = "good"

\* the rows of a file's well-formed lines, in file order
ExpectedTsRows(file) ==
    LET good == SelectSeq(file, IsGoodTs)
    IN  [k \in 1..Len(good) |-> ExpectTsRow(good[k])]

ExpectedDemoRows(file) ==
    LET good == SelectSeq(file, IsGoodDemo)
    IN  [k \in 1..Len(good) |-> ExpectDemoRow(good[k])]

KindCount(file, kinds) ==
    Cardinality({k \in 1..Len(file) : ExpectTsOf(file[k]).kind \in kinds})

\* the rows of the calls, in the order submitted
RECURSIVE ConcatBatches(_)
ConcatBatches(cs) ==
    IF cs = <<>> THEN <<>> ELSE Head(cs).batch \o ConcatBatches(Tail(cs))

\* C1: the rows submitted to population_timeseries hold at most one row per
\* data_date, and each is the row of the last accepted line of its date
\* (as many dates as rows submitted; every submitted row is an accepted one;
\* and an accepted row whose date was submitted with another row has a later
\* accepted line of its date: so the one row of a date is its last line's)
C1_DedupLastWins ==
    TsCalls # {} =>
        \A all \in {ConcatBatches(calls)} :
        \A dates \in {{all[k].data_date : k \in 1..Len(all)}} :
        \A sub \in {{all[k] : k \in 1..Len(all)}} :
            /\ Cardinality(dates) = Len(all)
            /\ sub \subseteq {parsed[k] : k \in 1..Len(parsed)}
            /\ \A k \in 1..Len(parsed) :
                  \/ parsed[k] \in sub
                  \/ parsed[k].data_date \notin dates
                  \/ \E k2 \in (k + 1)..Len(parsed) :
                        parsed[k2].data_date = parsed[k].data_date

\* a date on two accepted lines with different values, and a batch submitted
C1_Witness ==
    /\ TsCalls # {}
    /\ \E k1 \in 1..Len(parsed), k2 \in 1..Len(parsed) :
          /\ k1 < k2
          /\ parsed[k1].data_date = parsed[k2].data_date
          /\ parsed[k1].individuals # parsed[k2].individuals

\* C2: every later completed load of the same file leaves population_timeseries
\* as the first completed load left it
C2_Idempotent ==
    \A k \in 2..Len(ts_done) : ts_done[k] = ts_done[1]

\* two completed loads of more than a batch, over rows stored before
C2_Witness ==
    /\ Len(ts_done) >= 2
    /\ Len(rows) > BatchSize
    /\ \E t \in 1..Len(ts_done[2]) : ts_done[2][t].individuals = 42

\* the timeseries loader of this run has returned
TsReturned ==
    /\ TsParsed
    /\ pc \in {"demo"}

\* C3: a completed load of N deduplicated rows made ceil(N/100) submissions,
\* each of at most 100 rows, whose concatenation is the row sequence; while
\* it runs, the submissions are the first rows in order
C3_Batching ==
    /\ pc = "ts_upsert" =>
          /\ \A c \in 1..Len(calls) : Len(calls[c].batch) <= BatchSize
          /\ ConcatBatches(calls) = SubSeq(rows, 1, i)
    /\ TsReturned =>
          /\ Len(calls) = (Len(rows) + BatchSize - 1) \div BatchSize
          /\ \A c \in 1..Len(calls) :
                calls[c].ok /\ Len(calls[c].batch) <= BatchSize
                    /\ calls[c].table = "population_timeseries"
          /\ ConcatBatches(calls) = rows
          /\ inserted = Len(rows)

\* a load of 201 rows has returned after three submissions
C3_Witness ==
    /\ TsReturned
    /\ Len(rows) = 2 * BatchSize + 1
    /\ Len(calls) = 3

\* C4 (as amended): no row that fails coercion or is too short is accepted or
\* submitted; skipped counts the timeseries lines of two or more fields that
\* fail coercion, and not the lines of too few fields
C4_FailingRowsDropped ==
    /\ TsParsed =>
          /\ skipped = KindCount(ts_file, {"bad"})
          /\ Len(parsed) = KindCount(ts_file, {"good"})
          /\ \A good \in {{ExpectTsRow(ts_file[k]) :
                             k \in {n \in 1..Len(ts_file) : IsGoodTs(ts_file[n])}}} :
                \A c \in TsCalls : \A j \in 1..Len(calls[c].batch) :
                   calls[c].batch[j] \in good
    /\ DemoParsed =>
          /\ rows = ExpectedDemoRows(demo_file)
          /\ \A c \in 1..Len(calls) : calls[c].batch = rows

\* a file with a short line, a line that fails coercion and a good line, parsed
\* and submitted
C4_Witness ==
    /\ TsParsed
    /\ TsCalls # {}
    /\ KindCount(ts_file, {"short"}) > 0
    /\ KindCount(ts_file, {"bad"}) > 0
    /\ skipped > 0

\* C4 as claimed: every failing row, the short ones too, is counted in skipped
C4_Original ==
    TsParsed => skipped = KindCount(ts_file, {"bad", "short"})

\* a file of directive, header, quoted and blank lines only
OnlyMarkers(file) == \A k \in 1..Len(file) : file[k] \in {1, 2, 3, 4}

\* C5 (as amended): a file of only header, comment, directive and blank lines
\* yields no accepted row and a skip count of zero; the loader says that no
\* rows parsed and returns without a call of the store and without exception
C5_GarbageFile ==
    (TsParsed /\ OnlyMarkers(ts_file)) =>
        /\ parsed = <<>>
        /\ skipped = 0
        /\ TsCalls = {}
        /\ exc # "upsert population_timeseries"
        /\ \E k \in 1..Len(out) : out[k] = "No rows parsed"
        /\ population_timeseries = ts_at_call

\* all four kinds of such lines in one file, parsed
C5_Witness ==
    /\ TsParsed
    /\ ts_file = <<1, 2, 4, 3>>
    /\ pc = "done"

\* C5 as claimed: the skip count of such a file is not zero
C5_Original ==
    (TsParsed /\ OnlyMarkers(ts_file)) => (parsed = <<>> /\ skipped > 0)

\* C6: a failed upsert of batch k ends the process with that exception; it is
\* the last call (no retry, no later batch), the k-1 calls before it are the
\* batches 1..k-1, and their rows are in the table
C6_BatchFailure ==
    /\ \A c \in TsCalls :
          ~calls[c].ok =>
             /\ pc = "crashed"
             /\ exc = "upsert population_timeseries"
             /\ c = Len(calls)
    /\ (pc = "crashed" /\ exc = "upsert population_timeseries") =>
          /\ Len(calls) >= 1
          /\ ~calls[Len(calls)].ok
          /\ \A c \in 1..Len(calls) :
                calls[c].batch =
                    SubSeq(rows, (c - 1) * BatchSize + 1,
                           IF c * BatchSize < Len(rows) THEN c * BatchSize ELSE Len(rows))
          /\ \A done \in {ConcatBatches(SubSeq(calls, 1, Len(calls) - 1))} :
             \A committed \in {{done[k] : k \in 1..Len(done)}} :
             \A stored \in {{population_timeseries[t] :
                               t \in 1..Len(population_timeseries)}} :
                /\ committed \subseteq stored
                /\ stored \subseteq
                      committed \cup {ts_at_call[s] : s \in 1..Len(ts_at_call)}

\* the third batch of a load failed after two were committed
C6_Witness ==
    /\ pc = "crashed"
    /\ exc = "upsert population_timeseries"
    /\ Len(calls) = 3
    /\ Len(population_timeseries) >= 2 * BatchSize

ExampleRows ==
    <<[data_date |-> IsoText(<<2011, 12, 16>>), individuals |-> 1000],
      [data_date |-> IsoText(<<2026, 2, 19>>), individuals |-> 2000]>>

-----------------------------------------------------------------------------
(* parse_date (DateSpec).                                                  *)

DateResult == [ok |-> date_res.ok, v |-> date_res.v]

\* the formats under which the stripped string parses, by position in Formats
MatchingFormats(s) == {k \in 1..Len(Formats) : strptime(strip(s), Formats[k]).ok}

\* the written day is a day of the calendar
SourceIsDay ==
    /\ date_src.fmt # "raw"
    /\ ValidDate(date_src.ymd[1], date_src.ymd[2], date_src.ymd[3])

\* the years a two-digit year stands for
TwoDigitYears == (CenturyLow + PivotYear + 1)..(CenturyHigh + PivotYear)

\* C8: parse_date returns the rendering of the first of DD-MM-YY, YYYY-MM-DD,
\* DD-MM-YYYY under which the string parses and raises only when it parses
\* under none; a day written as YYYY-MM-DD or DD-MM-YYYY gives that day as
\* the platform renders it (a year below 1000 possibly without leading
\* zeros), a day written as DD-MM-YY gives the day of 1969..2068 with that
\* two-digit year, and what is not a day of the calendar raises
C8_ParseDate ==
    date_res.called =>
        /\ \A ms \in {MatchingFormats(date_str)} :
              IF ms = {} THEN DateResult = ValueError
              ELSE \E k \in ms :
                      /\ \A j \in ms : k <= j
                      /\ DateResult =
                            Ok(strftime(strptime(strip(date_str), Formats[k]).v, pad_year))
        /\ date_src.fmt = "raw" => DateResult = ExpectRaw[date_src.ymd[1]]
        /\ (SourceIsDay /\ date_src.fmt \in {"iso", "dmy4"}) =>
              DateResult = Ok(strftime(date_src.ymd, pad_year))
        /\ (SourceIsDay /\ date_src.fmt = "dmy2") =>
              DateResult =
                 Ok(IsoText(<<CHOOSE y \in TwoDigitYears : y % 100 = date_src.ymd[1] % 100,
                              date_src.ymd[2], date_src.ymd[3]>>))
        /\ (date_src.fmt # "raw" /\ ~SourceIsDay) => DateResult = ValueError

\* 16 December 2011 written as 16-12-2011 has given 2011-12-16, parsed under
\* the third format only
C8_Witness ==
    /\ date_res.called
    /\ date_src = [fmt |-> "dmy4", ymd |-> <<2011, 12, 16>>, padded |-> TRUE]
    /\ MatchingFormats(date_str) = {3}
    /\ DateResult = Ok(IsoText(<<2011, 12, 16>>))

\* (the statement as written) a day in any of the three formats gives its
\* YYYY-MM-DD
C8_Original ==
    (date_res.called /\ SourceIsDay) => DateResult = Ok(IsoText(date_src.ymd))

-----------------------------------------------------------------------------
(* The handlers' failures (ApiSpec).                                       *)

\* C9: a failure of the store in any handler but health is answered with
\* status 500 and the error's text, and only a failure is; health answers a
\* failure of its ping with status 200 and database "error"
C9_StoreFailure ==
    /\ (response.raised # "none" /\ response.endpoint # "GET /health") =>
          /\ response.status = 500
          /\ response.detail = response.raised
    /\ (response.raised # "none" /\ response.endpoint = "GET /health") =>
          /\ response.status = 200
          /\ response.detail = "database: error"
    /\ response.status = 500 => response.raised \in StoreErrors
    /\ response.endpoint # "none" => response.status \in {200, 500}

\* the store has failed under health and the client got a success response
C9_Witness ==
    /\ response.endpoint = "GET /health"
    /\ response.raised = "timeout"
    /\ response.status = 200
    /\ response.detail = "database: error"

\* (the statement as written) every failure of the store is answered with
\* status 500 and the error's text
C9_Original ==
    response.raised # "none" =>
        /\ response.status = 500
        /\ response.detail = response.raised

-----------------------------------------------------------------------------
(* What ends a process (SystemSpec).                                       *)

LoaderHalted == pc = "exit"

\* the tags of the steps that follow the two loaders
LaterSteps == OchaOutcomes \cup {"summary", "summary with errors", "All done"}

\* C10: without SUPABASE_SERVICE_KEY the script exits at its setup, before
\* any step and any call of the store, while the API module goes on with the
\* anon key and serves; with the key the script ends early only by an upsert
\* that raises, and then none of the steps after the loaders has run; a
\* handler's error leaves the API running
C10_Fatal ==
    /\ ~key_set =>
          /\ pc \in {"start", "exit"}
          /\ calls = <<>>
          /\ population_timeseries = <<>> /\ population_demographics = <<>>
          /\ camp_locations = 0
          /\ api_state = "running" => api_key = "anon"
    /\ LoaderHalted => (~key_set /\ out = <<"ERROR: Set SUPABASE_SERVICE_KEY">>)
    /\ pc = "crashed" =>
          /\ key_set
          /\ exc \in {"upsert population_timeseries", "upsert population_demographics"}
          /\ calls # <<>> /\ ~calls[Len(calls)].ok
          /\ \A k \in 1..Len(out) : out[k] \notin LaterSteps
    /\ (exc # "none") = (pc = "crashed")
    /\ response.endpoint # "none" => api_state = "running"

\* without the key the script has exited and the API has answered a request,
\* and a run with the key was ended by a failed upsert
C10_Witness ==
    \/ /\ ~key_set
       /\ LoaderHalted
       /\ api_state = "running"
       /\ response.status = 200
    \/ /\ key_set
       /\ pc = "crashed"
       /\ response.status = 500

\* (the statement as written) without the key neither process gets past its
\* setup, and with it nothing ends the script before its last step
C10_Original ==
    /\ ~key_set => (pc \in {"start", "exit"} /\ api_state # "running")
    /\ pc # "crashed"

-----------------------------------------------------------------------------
(* Missing files (Spec).                                                   *)

\* __main__ is past its step for csv.csv / for population_timeseries.csv
PastTs == pc \in {"demo", "demo_upsert", "ocha", "summary", "done", "crashed"}
PastDemo == pc \in {"ocha", "summary", "done"}

Printed(tag) == \E k \in 1..Len(out) : out[k] = tag

CallsOf(table) == {c \in 1..Len(calls) : calls[c].table = table}

StoredRows(table) == {table[k] : k \in 1..Len(table)}

\* C11: a file that does not exist gets its warning, the file that exists
\* gets none, and nothing of the missing file is submitted or stored; the
\* script goes on: the other file is loaded, and a run that ends without a
\* failed upsert has printed an outcome of the OCHA step, the summary and
\* the last line, in that order; only a failed upsert of a file that exists
\* ends a run early
C11_MissingFile ==
    /\ PastTs => (Printed("csv.csv not found") = ~ts_exists)
    /\ PastDemo => (Printed("population_timeseries.csv not found") = ~demo_exists)
    /\ ~ts_exists =>
          /\ CallsOf("population_timeseries") = {}
          /\ parsed = <<>> /\ ts_done = <<>>
          /\ population_timeseries \in InitTimeseries
    /\ ~demo_exists =>
          /\ CallsOf("population_demographics") = {}
          /\ population_demographics = <<>>
    /\ (pc = "crashed" /\ exc = "upsert population_timeseries") => ts_exists
    /\ (pc = "crashed" /\ exc = "upsert population_demographics") => demo_exists
    /\ pc = "done" =>
          /\ Len(out) >= 3
          /\ out[Len(out) - 2] \in OchaOutcomes
          /\ out[Len(out) - 1] \in {"summary", "summary with errors"}
          /\ out[Len(out)] = "All done"
          /\ (~ts_exists /\ demo_exists) =>
                /\ rows = ExpectedDemoRows(demo_file)
                /\ StoredRows(rows) \subseteq StoredRows(population_demographics)
          /\ (ts_exists /\ ~demo_exists) =>
                StoredRows(rows) \subseteq StoredRows(population_timeseries)

\* a run without csv.csv has loaded the other file's rows and ended with the
\* summary
C11_Witness ==
    /\ ~ts_exists /\ demo_exists
    /\ pc = "done"
    /\ Printed("csv.csv not found")
    /\ ~Printed("population_timeseries.csv not found")
    /\ population_demographics # <<>>

-----------------------------------------------------------------------------
(* The values of the submitted rows (Spec).                                *)

\* C12: every row submitted to population_timeseries has individuals >= 0,
\* and every row submitted to population_demographics has a month of 1..12
\* and no negative total.  The loaders coerce the fields with int() and test
\* no range: this does not hold of them
C12_RowRanges ==
    \A c \in 1..Len(calls) : \A j \in 1..Len(calls[c].batch) :
        \A row \in {calls[c].batch[j]} :
            IF calls[c].table = "population_timeseries"
            THEN row.individuals >= 0
            ELSE /\ row.month \in 1..12
                 /\ row.male_total >= 0 /\ row.female_total >= 0
                 /\ row.children_total >= 0 /\ row.uac_total >= 0

-----------------------------------------------------------------------------
(* The upsert of the demographics rows (Spec).                             *)

\* load_population_demographics of this run has returned
DemoReturned ==
    /\ demo_exists
    /\ pc \in {"ocha", "summary", "done"}

\* C13: load_population_demographics submits the accepted rows, all of them
\* and none dropped as a duplicate, in one upsert that resolves conflicts on
\* snapshot_date (in none when no row is accepted) and returns their number;
\* so, the table being empty before the first run, the stored rows of a date
\* are at most as many as the file's accepted rows of that date.  The code's
\* upsert names no on_conflict: this does not hold of it
C13_SingleUpsert ==
    DemoReturned =>
        /\ rows = ExpectedDemoRows(demo_file)
        /\ returned.demo = <<Len(rows)>>
        /\ calls = IF rows = <<>> THEN <<>>
                   ELSE <<Call("population_demographics", rows, "snapshot_date", TRUE)>>
        /\ \A d \in {rows[k].snapshot_date : k \in 1..Len(rows)} :
              Cardinality({t \in 1..Len(population_demographics) :
                              population_demographics[t].snapshot_date = d})
                 <= Cardinality({k \in 1..Len(rows) : rows[k].snapshot_date = d})

-----------------------------------------------------------------------------
(* Acknowledged alerts (ApiSpec).                                          *)

AcknowledgedRow == [acknowledged |-> TRUE, acknowledged_by |-> "operator"]

AcknowledgeSucceeded(r) ==
    /\ r.endpoint = "POST /api/alerts/acknowledge"
    /\ r.status = 200
    /\ r.detail = "success"

\* the acknowledge succeeds and leaves every alert as it was
AcknowledgeChangesNothing ==
    /\ acknowledge_alert
    /\ AcknowledgeSucceeded(response')
    /\ alerts' = alerts

\* what a step of the API may do to the alerts and answer about them
AlertsStep ==
    /\ \A a \in 1..NumAlerts : alerts[a].acknowledged => alerts'[a].acknowledged
    /\ alerts' # alerts =>
          /\ AcknowledgeSucceeded(response')
          /\ \E id \in 1..NumAlerts :
                alerts' = [alerts EXCEPT ![id] = AcknowledgedRow]
    /\ (response'.endpoint = "GET /api/alerts" /\ response'.status = 200) =>
          response'.data = {a \in 1..NumAlerts : ~alerts'[a].acknowledged}
    /\ (response'.endpoint = "GET /api/alerts?include_acknowledged=true"
           /\ response'.status = 200) =>
          response'.data = 1..NumAlerts

\* C14: no step of the API resets acknowledged; the alerts change only in a
\* successful POST /api/alerts/acknowledge, and then one alert becomes
\* acknowledged and no other changes; a successful
\* GET /api/alerts lists exactly the alerts not acknowledged, and with
\* include_acknowledged=true all of them (so an alert once acknowledged is
\* in no later default listing and in every later full one); and the
\* acknowledge can always succeed without changing an alert, as it does for
\* an id that no alert has
C14_Acknowledge ==
    /\ [](api_state = "running" => ENABLED AcknowledgeChangesNothing)
    /\ [][AlertsStep]_vars

\* an alert acknowledged through the API is missing from a default listing
\* that still lists another alert
C14_Witness ==
    /\ response.endpoint = "GET /api/alerts"
    /\ response.status = 200
    /\ \E a \in 1..NumAlerts :
          /\ alerts[a] = AcknowledgedRow
          /\ a \notin response.data
    /\ response.data # {}

====
